---- MODULE Spec2Model ----
(***************************************************************************)
(* State machine of the Telegram finance bot: the callback ticket store    *)
(* (BotManager.callback_map), the per-chat message log                     *)
(* (BotManager.user_messages) and the three handlers of BotManager         *)
(* (start, categorise_transactions, handle_set_type), run by the worker    *)
(* threads of the TeleBot instance.  A step is one Python statement that    *)
(* touches shared state or calls the chat transport / Notion, so the        *)
(* handlers of different threads interleave between statements.  A call     *)
(* whose effect no other thread can observe before the next statement of    *)
(* its handler (a send whose message id is not logged yet, an answer to a   *)
(* callback query) is taken together with the statement next to it.         *)
(***************************************************************************)
EXTENDS Integers, Sequences, FiniteSets, TLC

\* ---------------------------------------------------------------- bounds
\* Inbound updates (commands and button taps) dispatched in one behaviour.
MaxUpdates == 3
\* /search commands among the updates of one behaviour.
MaxSearches == 2
\* Pages of the Notion data source that match the filter of /search.
MaxPages == 1
\* Rare events in one behaviour: calls of the chat transport or of Notion that
\* fail although their target exists (network, rate limit, server error), and
\* draws of token_urlsafe that return "disabled" or the value of an earlier draw.
MaxFaults == 1

\* Arguments of a read_rows call made on its own: its limit, and the number of
\* rows of the data source that match the filter.
MaxLimit == 52
MaxRows == 52

\* ------------------------------------------------------ program constants
\* TeleBot(token=TOKEN, parse_mode="HTML"): threaded, worker pool of 2 threads.
NumThreads == 2
\* notion_bot.read_rows(limit=50)
Limit == 50
\* NotionManager.page_size
PageSize == 50

Threads == 1..NumThreads
\* chat ids of the conversations that talk to the bot
Chats == {1}
\* Keys of NotionManager.expense_type_ids, in dict order (two of the seven).
Categories == <<"Food", "Shopping">>
\* The page id an environment variable gives for a category, when it is set.
EnvId(name) == IF name = "Food" THEN "food_id" ELSE "shop_id"
\* Pages of the Notion data source that have a date, most recent first.
PageIds == <<"A", "B">>

Min(a, b) == IF a <= b THEN a ELSE b
SeqToSet(s) == {s[i] : i \in 1..Len(s)}
Count(s, x) == Cardinality({i \in 1..Len(s) : s[i] = x})

VARIABLES
    callback_map,      \* BotManager.callback_map: key -> <<txn, exp, ticket no.>>
    user_messages,     \* BotManager.user_messages: chat -> reference of a list object
    lists,             \* the list objects user_messages has referred to, by reference
    expense_type_ids,  \* NotionManager.expense_type_ids: category name -> id or ""
    expense_type,      \* Notion: the "Expense Type" relation of each page ("" = empty)
    num_pages,         \* Notion: how many pages of PageIds the data source holds
    messages,          \* chat transport: the messages the bot sent, by message id
    th,                \* worker threads: handler being run, its position and locals
    dispatched,        \* number of updates handed to the worker pool so far
    searches,          \* number of /search commands among them
    faults,            \* number of rare events counted against MaxFaults
    call,              \* a read_rows call made on its own: arguments and result
    minted,            \* history: number of _store_cb calls so far
    resolved,          \* history: ticket numbers popped from callback_map, in order
    patches,           \* history: set_expense_type calls, <<txn, exp>>, in order
    targeted,          \* history: message ids delete_message was called for
    closed,            \* history: <<message id, record>> of the resolving taps that ended
    logged,            \* history: message ids ever appended to a list of user_messages
    rendered           \* history: the chat the n-th _store_cb call made a button for

vars == <<callback_map, user_messages, lists, expense_type_ids, expense_type,
          num_pages, messages, th, dispatched, searches, faults, call, minted,
          resolved, patches, targeted, closed, logged, rendered>>

store  == <<callback_map, minted, resolved, rendered>>
log    == <<user_messages, lists, logged>>
notion == <<expense_type_ids, expense_type, num_pages, patches, call>>
chat   == <<messages, targeted>>
pool   == <<dispatched, searches>>

\* ------------------------------------------------------------- Notion side

\* The pages matching NotionManager.filter (date not empty, relation empty),
\* sorted by NotionManager.sort_query (date descending).
RECURSIVE Matching(_, _, _)
Matching(etype, n, i) ==
    IF i > n THEN <<>>
    ELSE (IF etype[PageIds[i]] = "" THEN <<PageIds[i]>> ELSE <<>>)
         \o Matching(etype, n, i + 1)

\* POST /v1/data_sources/{id}/query: one page of at most page_size results
\* starting at start_cursor (0 = None), with has_more and next_cursor.
query_rows(matching, page_size, start_cursor) ==
    LET last == Min(Len(matching), start_cursor + page_size)
    IN  [results     |-> SubSeq(matching, start_cursor + 1, last),
         has_more    |-> last < Len(matching),
         next_cursor |-> IF last < Len(matching) THEN last ELSE 0]

\* The compact record of one page; only page_id matters to the handlers.
normalize_page(page) == [page_id |-> page]

\* The inner loop of read_rows without its elif branch: it returns at the
\* limit only, and otherwise leaves the page to the pagination code.
RECURSIVE read_page_to_limit(_, _, _, _, _)
read_page_to_limit(results, i, limit, seen, records) ==
    IF i > Len(results)
    THEN [returned |-> FALSE, seen |-> seen, records |-> records]
    ELSE LET recs == Append(records, normalize_page(results[i]))
             s    == seen + 1
         IN  IF s >= limit
             THEN [returned |-> TRUE, seen |-> s, records |-> recs]
             ELSE read_page_to_limit(results, i + 1, limit, s, recs)

\* The inner loop of read_rows over data["results"], from its i-th element:
\* append, count, and return at the limit or once seen reaches len(results).
RECURSIVE read_page(_, _, _, _, _)
read_page(results, i, limit, seen, records) ==
    IF i > Len(results)
    THEN [returned |-> FALSE, seen |-> seen, records |-> records]
    ELSE LET recs == Append(records, normalize_page(results[i]))
             s    == seen + 1
         IN  IF s >= limit
             THEN [returned |-> TRUE, seen |-> s, records |-> recs]
             ELSE IF s >= Len(results)
             THEN [returned |-> TRUE, seen |-> s, records |-> recs]
             ELSE read_page(results, i + 1, limit, s, recs)

\* The outer loop of read_rows, at most page_size iterations.  The result says
\* whether a (records, index) pair was returned (none = FALSE) or the loop was
\* left without a return statement (none = TRUE), and how many queries were made.
RECURSIVE read_rows_from(_, _, _, _, _, _)
read_rows_from(matching, limit, seen, records, cursor, iteration) ==
    IF iteration >= PageSize
    THEN [none |-> TRUE, records |-> records, queries |-> iteration]
    ELSE LET page_size == Min(PageSize, limit - seen)
             data      == query_rows(matching, page_size, cursor)
         IN  IF data.results = <<>>
             THEN [none |-> FALSE, records |-> records, queries |-> iteration + 1]
             ELSE LET r == read_page(data.results, 1, limit, seen, records)
                  IN  IF r.returned
                      THEN [none |-> FALSE, records |-> r.records,
                            queries |-> iteration + 1]
                      ELSE IF ~data.has_more
                      THEN [none |-> TRUE, records |-> r.records,
                            queries |-> iteration + 1]
                      ELSE read_rows_from(matching, limit, r.seen, r.records,
                                          data.next_cursor, iteration + 1)

read_rows(matching, limit) == read_rows_from(matching, limit, 0, <<>>, 0, 0)

\* No read_rows call has been made on its own.
NoCall == [phase |-> "idle", limit |-> 0, rows |-> 0, none |-> FALSE,
           records |-> <<>>, queries |-> 0]

\* A data source with m matching rows: row i is the i-th most recent by date.
Rows(m) == [i \in 1..m |-> i]

\* ------------------------------------------------------------ chat transport

Message(chat_id, text, kb) ==
    [chat |-> chat_id, text |-> text, kb |-> kb, buttons |-> kb, deleted |-> FALSE]

\* A message the bot can still edit or delete.
Live(m) == m \in 1..Len(messages) /\ ~messages[m].deleted

\* A call that answers (ok) or raises.  It cannot answer when its target is
\* gone (forced); a failure that is not forced counts against MaxFaults.
Outcome(ok, forced) ==
    /\ ok => ~forced
    /\ (~ok /\ ~forced) => faults < MaxFaults
    /\ faults' = IF ~ok /\ ~forced THEN faults + 1 ELSE faults

\* edit_message_text(text, chat_id, message_id): the new text replaces the
\* old one and, no reply_markup being passed, the message loses its buttons.
EditText(m, text) == [messages EXCEPT ![m].text = text, ![m].kb = <<>>]

\* ------------------------------------------------------------------ threads

NoEntry == <<>>

IdleThread ==
    [pc |-> "idle", kind |-> "none", chat |-> 0, message |-> 0, key |-> "",
     got |-> NoEntry, iter |-> 0, idx |-> 0, records |-> <<>>, rec |-> 0,
     kb |-> <<>>, sent |-> 0, error |-> "", acks |-> <<>>, calls |-> 0,
     snapshot |-> <<>>, targets |-> <<>>, cleared |-> FALSE, fetch |-> "",
     steps |-> <<>>, ticket |-> 0, before |-> {}, sends |-> <<>>]

\* The worker pool hands the next update to an idle worker thread; idle workers
\* are interchangeable, so the first one takes it.
Free(p) ==
    /\ th[p].pc = "idle"
    /\ \A q \in Threads : q < p => th[q].pc # "idle"
    /\ dispatched < MaxUpdates

Init ==
    /\ callback_map = [k \in {} |-> NoEntry]
    /\ user_messages = [c \in Chats |-> 0]
    /\ lists = <<>>
    /\ expense_type_ids \in
           [SeqToSet(Categories) -> {""}]
           \cup {[n \in SeqToSet(Categories) |-> IF n = "Food" THEN EnvId(n) ELSE ""]}
           \cup {[n \in SeqToSet(Categories) |-> EnvId(n)]}
    /\ expense_type = [r \in SeqToSet(PageIds) |-> ""]
    /\ num_pages \in 0..Min(MaxPages, Len(PageIds))
    /\ messages = <<>>
    /\ th = [p \in Threads |-> IdleThread]
    /\ dispatched = 0
    /\ searches = 0
    /\ faults = 0
    /\ call = NoCall
    /\ minted = 0
    /\ resolved = <<>>
    /\ patches = <<>>
    /\ targeted = {}
    /\ closed = {}
    /\ logged = {}
    /\ rendered = <<>>

\* The list a reference stands for in heap ls; user_messages.get(chat_id, [])
\* gives the reference 0, an empty list nothing else refers to.
ListIn(ls, ref) == IF ref = 0 THEN <<>> ELSE ls[ref]
ListOf(ref) == ListIn(lists, ref)

\* A list object lives while user_messages refers to it or a clean-up loop
\* iterates it; a list nothing refers to is freed (its slot is left empty).
InUse(ref, um, t) ==
    \/ \E c \in Chats : um[c] = ref
    \/ \E q \in Threads : t[q].pc = "rv_loop" /\ t[q].iter = ref
Collect(ls, um, t) ==
    [r \in 1..Len(ls) |-> IF InUse(r, um, t) THEN ls[r] ELSE <<>>]

\* A worker thread p moves to record r; when this ends a tap that resolved a
\* ticket, the message and the record of the ticket are noted.
Step(p, r) ==
    /\ th' = [th EXCEPT ![p] = r]
    /\ closed' = IF r.kind = "tap" /\ r.pc \in {"done", "raised"} /\ r.got # NoEntry
                 THEN closed \cup {<<r.message, r.got[1]>>}
                 ELSE closed

\* The handler returns.
Return(t) == [t EXCEPT !.pc = "done"]

\* An exception leaves the handler; the worker thread logs it.
Raise(t, e) == [t EXCEPT !.pc = "raised", !.error = e]

\* answer_callback_query(c.id, text): the call is recorded, and answers or raises.
Ack(t, text) == [t EXCEPT !.acks = Append(@, text)]

\* The handler has made the call op, which answered (ok) or raised.
Did(t, op, ok) == [t EXCEPT !.steps = Append(@, <<op, ok>>)]

\* The handler has returned or raised: the worker thread drops the handler's
\* locals and is idle again.
worker_idle(p) ==
    /\ th[p].pc \in {"done", "raised"}
    /\ Step(p, IdleThread)
    /\ UNCHANGED <<store, log, notion, chat, pool, faults>>

\* ------------------------------------------------------------ ticket store

\* The string of the n-th draw of secrets.token_urlsafe(6) when it is neither
\* "disabled" nor the value of an earlier draw (the strings are interchangeable).
Token(n) == ToString(n)

\* What the n-th draw can return: "disabled", an earlier value, or a new one.
TokenSpace(n) == {"disabled"} \cup {Token(j) : j \in 1..n}

\* BotManager._store_cb with the value token_urlsafe returned: the entry is
\* written whatever the key is and whether or not the key is already there.
store_cb(map, key, txn_page_id, expense_type_page_id, ticket) ==
    [k \in DOMAIN map \cup {key} |->
        IF k = key THEN <<txn_page_id, expense_type_page_id, ticket>> ELSE map[k]]

\* Variant of Configured without "if not exp_id: continue": every category
\* gets a button, with or without an id.
ConfiguredAll(ids, i) == SubSeq(Categories, i, Len(Categories))

\* The categories _keyboard_for makes a button for: those with an id.
RECURSIVE Configured(_, _)
Configured(ids, i) ==
    IF i > Len(Categories) THEN <<>>
    ELSE (IF ids[Categories[i]] = "" THEN <<>> ELSE <<Categories[i]>>)
         \o Configured(ids, i + 1)

\* The loop of _keyboard_for from the i-th configured category on: one
\* _store_cb call per category, keys[i] being what token_urlsafe returns.
RECURSIVE keyboard_store(_, _, _, _, _, _)
keyboard_store(map, ids, transaction_page_id, keys, i, ticket) ==
    IF i > Len(keys) THEN map
    ELSE keyboard_store(
             store_cb(map, keys[i], transaction_page_id,
                      ids[Configured(ids, 1)[i]], ticket + i),
             ids, transaction_page_id, keys, i + 1, ticket)

\* The callback_data of the buttons _keyboard_for returns.
keyboard_for(keys) ==
    IF keys = <<>> THEN << <<"SET", "disabled">> >>
    ELSE [i \in 1..Len(keys) |-> <<"SET", keys[i]>>]

\* The draws for n buttons after `ticket` earlier draws, and how many of them
\* return "disabled" or an earlier value.
Draws(n, ticket) ==
    {keys \in [1..n -> TokenSpace(ticket + n)] :
        \A i \in 1..n : keys[i] \in TokenSpace(ticket + i)}
Unlucky(keys, ticket) ==
    Cardinality({i \in 1..Len(keys) : keys[i] # Token(ticket + i)})

\* --------------------------------------------------------------- /start

\* BotManager.start: one send_message; the message id is not kept.
start(p) ==
    /\ Free(p)
    /\ dispatched' = dispatched + 1
    /\ searches' = searches
    /\ \E chat_id \in Chats, ok \in BOOLEAN :
          LET t == [IdleThread EXCEPT !.kind = "start", !.chat = chat_id]
          IN  /\ Outcome(ok, FALSE)
              /\ messages' = IF ok
                             THEN Append(messages, Message(chat_id, "welcome", <<>>))
                             ELSE messages
              /\ Step(p, IF ok THEN Return(t) ELSE Raise(t, "ApiException"))
    /\ UNCHANGED <<store, log, notion, targeted>>

\* --------------------------------------------------------------- /search

\* categorise_transactions is entered: the for statement takes the iterator of
\* the list user_messages.get(chat_id, []) returns.
categorise_transactions(p) ==
    /\ Free(p)
    /\ searches < MaxSearches
    /\ dispatched' = dispatched + 1
    /\ searches' = searches + 1
    /\ \E chat_id \in Chats :
          Step(p, [IdleThread EXCEPT !.pc = "rv_loop", !.kind = "review",
                                     !.chat = chat_id,
                                     !.iter = user_messages[chat_id],
                                     !.snapshot = ListOf(user_messages[chat_id])])
    /\ UNCHANGED <<store, log, notion, chat, faults>>

\* Variant of AfterDelete without the try / except around delete_message: an
\* exception of the call leaves the handler.
AfterDeleteAbort(t, message_id, ok) ==
    LET u == [Did(t, "delete_message", ok) EXCEPT !.targets = Append(@, message_id)]
    IN  IF ok THEN [u EXCEPT !.idx = @ + 1] ELSE Raise(u, "ApiException")

\* try: delete_message(chat_id, message_id) / except Exception: print(...):
\* whether the call answered or raised, the loop goes on with the next id.
AfterDelete(t, message_id, ok) ==
    [Did(t, "delete_message", ok) EXCEPT !.idx = @ + 1,
                                         !.targets = Append(@, message_id)]

\* One iteration of the clean-up loop: delete_message for the next id of the
\* list being iterated; an exception is printed and the loop goes on.
rv_delete(p) ==
    /\ th[p].pc = "rv_loop"
    /\ th[p].idx < Len(ListOf(th[p].iter))
    /\ LET message_id == ListOf(th[p].iter)[th[p].idx + 1]
       IN  /\ targeted' = targeted \cup {message_id}
           /\ \E ok \in BOOLEAN :
                 /\ Outcome(ok, ~Live(message_id))
                 /\ messages' = IF ok
                                THEN [messages EXCEPT ![message_id].deleted = TRUE]
                                ELSE messages
                 /\ Step(p, AfterDelete(th[p], message_id, ok))
    /\ UNCHANGED <<store, log, notion, pool>>

\* The iterator is exhausted: the for statement ends.
rv_loop_end(p) ==
    /\ th[p].pc = "rv_loop"
    /\ th[p].idx >= Len(ListOf(th[p].iter))
    /\ Step(p, [th[p] EXCEPT !.pc = "rv_clear"])
    /\ lists' = Collect(lists, user_messages, th')
    /\ UNCHANGED <<store, user_messages, logged, notion, chat, pool, faults>>

\* Variant of rv_clear without self.user_messages[chat_id] = []: the loading
\* message is sent, and the chat keeps the list it had, or none.
rv_clear_unbound(p) ==
    /\ th[p].pc = "rv_clear"
    /\ user_messages' = user_messages
    /\ \E ok \in BOOLEAN :
          /\ Outcome(ok, FALSE)
          /\ messages' = IF ok
                         THEN Append(messages, Message(th[p].chat, "loading", <<>>))
                         ELSE messages
          /\ Step(p, IF ok
                     THEN [th[p] EXCEPT !.pc = "rv_log_loading",
                                        !.cleared = TRUE,
                                        !.message = Len(messages) + 1]
                     ELSE Raise([th[p] EXCEPT !.cleared = TRUE], "ApiException"))
    /\ lists' = Collect(lists, user_messages', th')
    /\ UNCHANGED <<store, logged, notion, targeted, pool>>

\* self.user_messages[chat_id] = []: the chat is bound to a new, empty list;
\* then loading = self.bot.send_message(chat_id, "Gathering transactions ...").
\* (No other thread can refer to the new message before its id is logged, so
\* the send is taken together with the statement before it.)
rv_clear(p) ==
    /\ th[p].pc = "rv_clear"
    /\ user_messages' = [user_messages EXCEPT ![th[p].chat] = Len(lists) + 1]
    /\ \E ok \in BOOLEAN :
          /\ Outcome(ok, FALSE)
          /\ messages' = IF ok
                         THEN Append(messages, Message(th[p].chat, "loading", <<>>))
                         ELSE messages
          /\ Step(p, IF ok
                     THEN [th[p] EXCEPT !.pc = "rv_log_loading",
                                        !.cleared = TRUE,
                                        !.message = Len(messages) + 1]
                     ELSE Raise([th[p] EXCEPT !.cleared = TRUE], "ApiException"))
    /\ lists' = Collect(Append(lists, <<>>), user_messages', th')
    /\ UNCHANGED <<store, logged, notion, targeted, pool>>

\* self.user_messages[chat_id].append(loading.message_id)
rv_log_loading(p) ==
    /\ th[p].pc = "rv_log_loading"
    /\ lists' = [lists EXCEPT ![user_messages[th[p].chat]] = Append(@, th[p].message)]
    /\ logged' = logged \cup {th[p].message}
    /\ Step(p, [th[p] EXCEPT !.pc = "rv_fetch"])
    /\ UNCHANGED <<store, user_messages, notion, chat, pool, faults>>

\* records, _index = notion_bot.read_rows(limit=50), inside try / except
\* ValueError / else.  The query answers, or raises ValueError (a body that is
\* not JSON), or raises another exception (HTTPError of raise_for_status,
\* ConnectionError, Timeout), which no except clause of the handler catches.
rv_fetch(p) ==
    /\ th[p].pc = "rv_fetch"
    /\ \E outcome \in {"ok", "ValueError", "HTTPError"} :
          LET r == read_rows(Matching(expense_type, num_pages, 1), Limit)
          IN  /\ Outcome(outcome = "ok", FALSE)
              /\ Step(p,
                   IF outcome = "HTTPError"
                   THEN [Raise(th[p], "HTTPError") EXCEPT !.fetch = outcome]
                   ELSE IF outcome = "ValueError"
                   THEN [th[p] EXCEPT !.pc = "rv_edit_error", !.fetch = outcome]
                   ELSE IF r.none
                   THEN [Raise(th[p], "TypeError") EXCEPT !.fetch = outcome]
                   ELSE [th[p] EXCEPT !.fetch = outcome,
                                      !.records = r.records,
                                      !.pc = IF r.records = <<>>
                                             THEN "rv_edit_nothing"
                                             ELSE "rv_edit_header"])
    /\ UNCHANGED <<store, log, notion, chat, pool>>

\* except ValueError: edit_message_text("Nothing to categorise. ValueError
\* encountered", ...), not guarded: an exception of the edit leaves the handler.
rv_edit_error(p) ==
    /\ th[p].pc = "rv_edit_error"
    /\ \E ok \in BOOLEAN :
          /\ Outcome(ok, ~Live(th[p].message))
          /\ messages' = IF ok THEN EditText(th[p].message, "valueerror") ELSE messages
          /\ Step(p, IF ok THEN Return(th[p]) ELSE Raise(th[p], "ApiException"))
    /\ UNCHANGED <<store, log, notion, targeted, pool>>

\* if not records: edit_message_text("Nothing to categorise.", ...); return
rv_edit_nothing(p) ==
    /\ th[p].pc = "rv_edit_nothing"
    /\ \E ok \in BOOLEAN :
          /\ Outcome(ok, ~Live(th[p].message))
          /\ messages' = IF ok THEN EditText(th[p].message, "nothing") ELSE messages
          /\ Step(p, IF ok THEN Return(th[p]) ELSE Raise(th[p], "ApiException"))
    /\ UNCHANGED <<store, log, notion, targeted, pool>>

\* try: edit_message_text("Found n uncategorised record(s):", ...)
\* except Exception: pass
rv_edit_header(p) ==
    /\ th[p].pc = "rv_edit_header"
    /\ \E ok \in BOOLEAN :
          /\ Outcome(ok, ~Live(th[p].message))
          /\ messages' = IF ok THEN EditText(th[p].message, "header") ELSE messages
    /\ Step(p, [th[p] EXCEPT !.pc = "rv_render", !.rec = 1])
    /\ UNCHANGED <<store, log, notion, targeted, pool>>

\* kb = self._keyboard_for(rec["page_id"]): one ticket per configured category,
\* each under the key token_urlsafe returns for it; then
\* sent = self.bot.send_message(chat_id, text, reply_markup=kb).
rv_render(p) ==
    /\ th[p].pc = "rv_render"
    /\ LET n == Len(Configured(expense_type_ids, 1))
       IN  \E keys \in Draws(n, minted), ok \in BOOLEAN :
              LET rare == Unlucky(keys, minted) + (IF ok THEN 0 ELSE 1)
              IN  /\ faults + rare <= MaxFaults
                  /\ faults' = faults + rare
                  /\ callback_map' =
                         keyboard_store(callback_map, expense_type_ids,
                                        th[p].records[th[p].rec].page_id,
                                        keys, 1, minted)
                  /\ minted' = minted + n
                  /\ rendered' = rendered \o [i \in 1..n |-> th[p].chat]
                  /\ messages' =
                         IF ok
                         THEN Append(messages,
                                     Message(th[p].chat, "record", keyboard_for(keys)))
                         ELSE messages
                  /\ Step(p, IF ok
                             THEN [th[p] EXCEPT !.pc = "rv_log_record",
                                                !.kb = keyboard_for(keys),
                                                !.sent = Len(messages) + 1,
                                                !.sends = Append(@, Len(messages) + 1)]
                             ELSE Raise([th[p] EXCEPT !.kb = keyboard_for(keys)],
                                        "ApiException"))
    /\ UNCHANGED <<resolved, log, notion, targeted, pool>>

\* self.user_messages[chat_id].append(sent.message_id), then the next record.
rv_log_record(p) ==
    /\ th[p].pc = "rv_log_record"
    /\ lists' = [lists EXCEPT ![user_messages[th[p].chat]] = Append(@, th[p].sent)]
    /\ logged' = logged \cup {th[p].sent}
    /\ Step(p, IF th[p].rec < Len(th[p].records)
               THEN [th[p] EXCEPT !.pc = "rv_render", !.rec = @ + 1]
               ELSE Return(th[p]))
    /\ UNCHANGED <<store, user_messages, notion, chat, pool, faults>>

\* ------------------------------------------------------------- button tap

\* c.data.split(":", 1)[1] for the callback_data f"SET:{key}" of a button.
KeyOf(data) == data[2]

\* Variant of IsDisabled: a handler without the test for the reserved key.
IsDisabledNever(key) == FALSE

\* if key == "disabled"
IsDisabled(key) == key = "disabled"

\* handle_set_type is entered for a tap on button b of message m (a button the
\* message was sent with: the tap may have been made before the keyboard went).
\* The key is parsed and compared with "disabled".
handle_set_type(p) ==
    /\ Free(p)
    /\ dispatched' = dispatched + 1
    /\ searches' = searches
    /\ \E m \in 1..Len(messages) :
          \E b \in 1..Len(messages[m].buttons) :
             LET key == KeyOf(messages[m].buttons[b])
             IN  Step(p, [IdleThread EXCEPT
                            !.kind = "tap", !.chat = messages[m].chat,
                            !.message = m, !.key = key,
                            !.ticket = IF key \in DOMAIN callback_map
                                       THEN callback_map[key][3] ELSE 0,
                            !.before = {c[2] : c \in {d \in closed : d[1] = m}},
                            !.pc = IF IsDisabled(key) THEN "tp_ack_disabled"
                                                      ELSE "tp_pop"])
    /\ UNCHANGED <<store, log, notion, chat, faults>>

\* answer_callback_query(c.id, "No categories configured.", show_alert=True); return
tp_ack_disabled(p) ==
    /\ th[p].pc = "tp_ack_disabled"
    /\ \E ok \in BOOLEAN :
          /\ Outcome(ok, FALSE)
          /\ Step(p, IF ok
                     THEN Return(Ack(th[p], "No categories configured."))
                     ELSE Raise(Ack(th[p], "No categories configured."), "ApiException"))
    /\ UNCHANGED <<store, log, notion, chat, pool>>

\* Variant of on_key_error: the missing key is handled as a failed update, by
\* the except branch of the update.
on_key_error_escalated(t, ok) ==
    [t EXCEPT !.error = "KeyError", !.pc = "tp_failed"]

\* except KeyError: answer_callback_query(c.id, "Invalid/expired button.");
\* return.  The answer may raise, and the exception leaves the handler.
on_key_error(t, ok) ==
    IF ok THEN Return(Ack(t, "Invalid/expired button."))
          ELSE Raise(Ack(t, "Invalid/expired button."), "ApiException")

\* Variant of Pop: self.callback_map[key], a lookup that leaves the entry.
PopKeeps(map, key) == map

\* What dict.pop(key) leaves of the dict when the key is there.
Pop(map, key) == [k \in DOMAIN map \ {key} |-> map[k]]

\* Variant of tp_pop with a gap between the lookup and the removal: the entry
\* is read in one step (value = self.callback_map.get(key)) and removed in the
\* next (self.callback_map.pop(key, None)).
tp_pop_split(p) ==
    /\ th[p].pc = "tp_pop"
    /\ IF th[p].got # NoEntry
       THEN /\ callback_map' = IF th[p].key \in DOMAIN callback_map
                               THEN Pop(callback_map, th[p].key)
                               ELSE callback_map
            /\ resolved' = Append(resolved, th[p].got[3])
            /\ faults' = faults
            /\ Step(p, [th[p] EXCEPT !.pc = "tp_update"])
       ELSE IF th[p].key \in DOMAIN callback_map
       THEN /\ UNCHANGED <<callback_map, resolved, faults>>
            /\ Step(p, [th[p] EXCEPT !.got = callback_map[th[p].key]])
       ELSE /\ UNCHANGED <<callback_map, resolved>>
            /\ \E ok \in BOOLEAN :
                  /\ Outcome(ok, FALSE)
                  /\ Step(p, on_key_error(th[p], ok))
    /\ UNCHANGED <<minted, rendered, log, notion, chat, pool>>

\* transaction_id, exp_type_id = self.callback_map.pop(key): dict.pop looks
\* the key up and removes it in one step.  except KeyError:
\* answer_callback_query(c.id, "Invalid/expired button."); return
tp_pop(p) ==
    /\ th[p].pc = "tp_pop"
    /\ IF th[p].key \in DOMAIN callback_map
       THEN /\ callback_map' = Pop(callback_map, th[p].key)
            /\ resolved' = Append(resolved, callback_map[th[p].key][3])
            /\ faults' = faults
            /\ Step(p, [th[p] EXCEPT !.pc = "tp_update",
                                     !.got = callback_map[th[p].key]])
       ELSE /\ UNCHANGED <<callback_map, resolved>>
            /\ \E ok \in BOOLEAN :
                  /\ Outcome(ok, FALSE)
                  /\ Step(p, on_key_error(th[p], ok))
    /\ UNCHANGED <<minted, rendered, log, notion, chat, pool>>

\* Variant of Unpack: the two ids of the entry are taken in the other order.
UnpackSwapped(entry) == <<entry[2], entry[1]>>

\* transaction_id, exp_type_id = <the entry callback_map.pop(key) returned>
Unpack(entry) == <<entry[1], entry[2]>>

\* try: notion_bot.set_expense_type(transaction_id, exp_type_id): the PATCH
\* replaces the relation of the page, or raises (raise_for_status, network).
\* After it, in the same try: answer_callback_query(c.id, "Updated"); an
\* exception of either call is caught by the handler's except Exception.
tp_update(p) ==
    /\ th[p].pc = "tp_update"
    /\ patches' = Append(patches, Unpack(th[p].got))
    /\ \E ok \in BOOLEAN, acked \in BOOLEAN :
          LET t == [Did(th[p], "set_expense_type", ok) EXCEPT !.calls = @ + 1]
          IN  /\ ~ok => acked
              /\ Outcome(ok /\ acked, FALSE)
              /\ expense_type' =
                     IF ok THEN [expense_type EXCEPT ![Unpack(th[p].got)[1]] =
                                                         Unpack(th[p].got)[2]]
                           ELSE expense_type
              /\ Step(p, IF ~ok
                         THEN [t EXCEPT !.error = "HTTPError", !.pc = "tp_failed"]
                         ELSE IF ~acked
                         THEN [Ack(t, "Updated") EXCEPT !.error = "ApiException",
                                                        !.pc = "tp_failed"]
                         ELSE [Ack(t, "Updated") EXCEPT !.pc = "tp_remove_markup"])
    /\ UNCHANGED <<store, log, expense_type_ids, num_pages, call, chat, pool>>

\* try: edit_message_reply_markup(chat, message_id, reply_markup=None)
\* except Exception: pass
tp_remove_markup(p) ==
    /\ th[p].pc = "tp_remove_markup"
    /\ \E ok \in BOOLEAN :
          /\ Outcome(ok, ~Live(th[p].message))
          /\ messages' = IF ok THEN [messages EXCEPT ![th[p].message].kb = <<>>]
                               ELSE messages
          /\ Step(p, [Did(th[p], "edit_message_reply_markup", ok) EXCEPT
                        !.pc = "tp_edit_text"])
    /\ UNCHANGED <<store, log, notion, targeted, pool>>

\* try: edit_message_text(c.message.text + "Categorised.", ...)
\* except Exception: the fallback send_message follows.
tp_edit_text(p) ==
    /\ th[p].pc = "tp_edit_text"
    /\ \E ok \in BOOLEAN :
          /\ Outcome(ok, ~Live(th[p].message))
          /\ messages' = IF ok THEN EditText(th[p].message, "categorised")
                               ELSE messages
          /\ Step(p, IF ok
                     THEN Return(Did(th[p], "edit_message_text", ok))
                     ELSE [Did(th[p], "edit_message_text", ok) EXCEPT
                             !.pc = "tp_send_confirm"])
    /\ UNCHANGED <<store, log, notion, targeted, pool>>

\* self.bot.send_message(chat, "Categorised."), inside the except of the edit
\* and inside the try of the update: its exception reaches except Exception.
tp_send_confirm(p) ==
    /\ th[p].pc = "tp_send_confirm"
    /\ \E ok \in BOOLEAN :
          /\ Outcome(ok, FALSE)
          /\ messages' = IF ok
                         THEN Append(messages, Message(th[p].chat, "confirm", <<>>))
                         ELSE messages
          /\ Step(p, IF ok
                     THEN Return(Did(th[p], "send_confirm", ok))
                     ELSE [Did(th[p], "send_confirm", ok) EXCEPT
                             !.error = "ApiException", !.pc = "tp_failed"])
    /\ UNCHANGED <<store, log, notion, targeted, pool>>

\* Variant of answer_failed: an except branch that sends the error message
\* without answering the callback query.
answer_failed_skipped(t) == t

\* self.bot.answer_callback_query(c.id, "Update failed", show_alert=False)
answer_failed(t) == Ack(t, "Update failed")

\* except Exception as e: answer_callback_query(c.id, "Update failed"), then
\* error_message = self.bot.send_message(chat, "Failed: ..."); an exception of
\* either call leaves the handler.
tp_failed(p) ==
    /\ th[p].pc = "tp_failed"
    /\ \E acked \in BOOLEAN, ok \in BOOLEAN :
          LET t == answer_failed(th[p])
          IN  /\ ~acked => ~ok
              /\ Outcome(ok, FALSE)
              /\ messages' = IF ok
                             THEN Append(messages, Message(th[p].chat, "failed", <<>>))
                             ELSE messages
              /\ Step(p, IF ~acked
                         THEN Raise(t, "ApiException")
                         ELSE IF ~ok
                         THEN Raise(Did(t, "send_error", ok), "ApiException")
                         ELSE [Did(t, "send_error", ok) EXCEPT
                                 !.pc = "tp_log_error", !.sent = Len(messages) + 1])
    /\ UNCHANGED <<store, log, notion, targeted, pool>>

\* Variant of tp_log_error: the handler returns without appending the id of
\* the error message to the chat's list.
tp_log_error_skipped(p) ==
    /\ th[p].pc = "tp_log_error"
    /\ Step(p, Return(th[p]))
    /\ UNCHANGED <<store, log, notion, chat, pool, faults>>

\* self.user_messages[c.message.chat.id].append(error_message.message_id):
\* KeyError when the chat has no list.
tp_log_error(p) ==
    /\ th[p].pc = "tp_log_error"
    /\ IF user_messages[th[p].chat] = 0
       THEN /\ UNCHANGED <<lists, logged>>
            /\ Step(p, Raise(th[p], "KeyError"))
       ELSE /\ lists' = [lists EXCEPT ![user_messages[th[p].chat]] =
                                          Append(@, th[p].sent)]
            /\ logged' = logged \cup {th[p].sent}
            /\ Step(p, Return(th[p]))
    /\ UNCHANGED <<store, user_messages, notion, chat, pool, faults>>

\* ------------------------------------------------------------ specification

Next ==
    \E p \in Threads :
        \/ start(p)
        \/ categorise_transactions(p)
        \/ rv_delete(p)
        \/ rv_loop_end(p)
        \/ rv_clear(p)
        \/ rv_log_loading(p)
        \/ rv_fetch(p)
        \/ rv_edit_error(p)
        \/ rv_edit_nothing(p)
        \/ rv_edit_header(p)
        \/ rv_render(p)
        \/ rv_log_record(p)
        \/ handle_set_type(p)
        \/ tp_ack_disabled(p)
        \/ tp_pop(p)
        \/ tp_update(p)
        \/ tp_remove_markup(p)
        \/ tp_edit_text(p)
        \/ tp_send_confirm(p)
        \/ tp_failed(p)
        \/ tp_log_error(p)
        \/ worker_idle(p)

Spec == Init /\ [][Next]_vars

\* -------------------------------------------------- read_rows on its own

\* notion_bot.read_rows(limit) against a data source with m matching rows.
read_rows_call(limit, m) ==
    /\ call.phase = "idle"
    /\ LET r == read_rows(Rows(m), limit)
       IN  call' = [phase |-> "returned", limit |-> limit, rows |-> m,
                    none |-> r.none, records |-> r.records, queries |-> r.queries]
    /\ UNCHANGED <<store, log, expense_type_ids, expense_type, num_pages, patches,
                   chat, pool, th, faults, closed>>

NextRows == \E limit \in 1..MaxLimit, m \in 0..MaxRows : read_rows_call(limit, m)

SpecRows == Init /\ [][NextRows]_vars

\* ------------------------------------------------------------------ claims

Tap(p) == th[p].kind = "tap"
Review(p) == th[p].kind = "review"
Ended(p) == th[p].pc \in {"done", "raised"}
Made(p, op) == <<op, TRUE>> \in SeqToSet(th[p].steps) \/ <<op, FALSE>> \in SeqToSet(th[p].steps)
Answered(p, op) == <<op, TRUE>> \in SeqToSet(th[p].steps)

\* C1: a ticket minted by _store_cb is resolved by at most one tap.  No ticket
\* is popped twice, a popped ticket is no longer in callback_map, and a tap
\* that finds its key gone answers "Invalid/expired button." and makes no
\* set_expense_type call.  (A ticket is one _store_cb call; a key that a later
\* _store_cb call stores again carries a new ticket.)
C1_ResolvedAtMostOnce ==
    /\ \A i, j \in 1..Len(resolved) : resolved[i] = resolved[j] => i = j
    /\ \A k \in DOMAIN callback_map : callback_map[k][3] \notin SeqToSet(resolved)
    /\ \A p \in Threads :
          (Tap(p) /\ ~IsDisabled(th[p].key) /\ th[p].pc # "tp_pop"
                  /\ th[p].got = NoEntry)
              => /\ th[p].acks = <<"Invalid/expired button.">>
                 /\ th[p].calls = 0

\* C1 happens: a tap has ended in the "Invalid/expired button." branch for a
\* key whose ticket an earlier tap resolved.
C1_LaterTapNotFound ==
    \E p \in Threads :
        /\ Tap(p) /\ th[p].pc = "done" /\ th[p].got = NoEntry
        /\ th[p].acks = <<"Invalid/expired button.">>
        /\ \E i \in 1..Len(resolved) : Token(resolved[i]) = th[p].key

\* A tap whose key held a ticket in callback_map when its handler was entered
\* (th[p].ticket, the number of the _store_cb call that wrote the entry), and
\* that has made its callback_map.pop(key) call.
PastPop(p) ==
    Tap(p) /\ th[p].ticket # 0 /\ ~IsDisabled(th[p].key) /\ th[p].pc # "tp_pop"

\* C2: of two tap handlers that run at the same time with the same key, the
\* key holding the same ticket in callback_map when each was entered, exactly
\* one gets the ticket and calls set_expense_type (once); the other answers
\* "Invalid/expired button." and makes no set_expense_type call.
C2_ConcurrentTapsOneResolves ==
    \A p, q \in Threads :
        (p # q /\ PastPop(p) /\ PastPop(q) /\ th[p].key = th[q].key
               /\ th[p].ticket = th[q].ticket)
            => \E r \in {p, q} :
                  LET o == CHOOSE x \in {p, q} : x # r
                  IN  /\ th[r].got # NoEntry
                      /\ th[r].pc # "tp_update" => th[r].calls = 1
                      /\ th[o].got = NoEntry
                      /\ th[o].calls = 0
                      /\ th[o].acks = <<"Invalid/expired button.">>

\* C2 happens: two taps with the same live key are in flight, one has called
\* set_expense_type and the other has answered "Invalid/expired button.".
C2_BothInFlight ==
    \E p, q \in Threads :
        /\ p # q /\ PastPop(p) /\ PastPop(q) /\ th[p].key = th[q].key
        /\ th[p].ticket = th[q].ticket
        /\ th[p].calls = 1
        /\ th[q].acks = <<"Invalid/expired button.">>

\* C3: callback_map never has an entry under the reserved key "disabled".
C3_DisabledNeverMinted == "disabled" \notin DOMAIN callback_map

\* C4: every step of a tap handler whose key is "disabled" leaves callback_map,
\* user_messages and its lists, and Notion unchanged, makes no set_expense_type
\* call and resolves nothing; the handler goes straight to the answer
\* "No categories configured." and ends with that answer as its only one.
C4_DisabledTapFrame ==
    [][\A p \in Threads :
          (th'[p] # th[p] /\ th'[p].kind = "tap" /\ th'[p].key = "disabled")
              => /\ th'[p].pc \in {"tp_ack_disabled", "done", "raised"}
                 /\ th'[p].calls = 0
                 /\ th'[p].got = NoEntry
                 /\ th'[p].pc # "tp_ack_disabled"
                        => th'[p].acks = <<"No categories configured.">>
                 /\ UNCHANGED <<callback_map, user_messages, lists, patches,
                                expense_type>>]_vars

\* C4 happens: a tap with the key "disabled" has answered and returned.
C4_DisabledTapDone ==
    \E p \in Threads :
        /\ Tap(p) /\ th[p].key = "disabled" /\ th[p].pc = "done"
        /\ th[p].acks = <<"No categories configured.">>

\* C5: a /search handler whose read_rows call failed ends by returning, with
\* its placeholder message edited to the error notice.
C5_FetchErrorNotice ==
    \A p \in Threads :
        (Review(p) /\ th[p].fetch \in {"ValueError", "HTTPError"} /\ Ended(p))
            => /\ th[p].pc = "done"
               /\ messages[th[p].message].text = "valueerror"

\* C6: a tap handler that has ended, by returning or by an exception, has
\* called answer_callback_query.
C6_TapAnswered ==
    \A p \in Threads : (Tap(p) /\ Ended(p)) => th[p].acks # <<>>

\* C6 happens: a tap handler has ended after its set_expense_type call
\* raised, and its answer is "Update failed".
C6_FailedTapAnswered ==
    \E p \in Threads :
        /\ Tap(p) /\ Ended(p) /\ <<"set_expense_type", FALSE>> \in SeqToSet(th[p].steps)
        /\ th[p].acks = <<"Update failed">>

\* C7: in every /search handler, once the clean-up loop is over, delete_message
\* has been called exactly once for each id the chat's list held when the
\* handler was entered, whatever the calls answered (while the loop runs, the
\* ids it has called delete_message for are the first ids of the list, in
\* order, and no exception has left the handler); the statement after the
\* loop binds the chat to an empty list, and it has run when the id of the
\* placeholder is appended.
C7_CleanUp ==
    [][\A p \in Threads :
          /\ th'[p].kind = "review"
                 => /\ th'[p].pc = "rv_loop"
                        => th'[p].targets =
                               SubSeq(ListIn(lists', th'[p].iter), 1, th'[p].idx)
                    /\ th'[p].pc # "rv_loop"
                        => \A i \in 1..Len(th'[p].snapshot) :
                               Count(th'[p].targets, th'[p].snapshot[i]) = 1
                    /\ th'[p].pc \notin {"rv_loop", "rv_clear"} => th'[p].cleared
          /\ (th[p].pc = "rv_clear" /\ th'[p].pc # "rv_clear")
                 => /\ th'[p].cleared
                    /\ ListIn(lists', user_messages'[th[p].chat]) = <<>>]_vars

\* C7 happens: a /search handler found two ids in the list, its first
\* delete_message call raised, it called delete_message for the second id all
\* the same, and it has bound the chat to an empty list and sent the
\* placeholder, whose id is about to be appended.
C7_FailedDeletionPassed ==
    \E p \in Threads :
        /\ Review(p) /\ th[p].pc = "rv_log_loading"
        /\ Len(th[p].snapshot) = 2
        /\ th[p].targets = th[p].snapshot
        /\ th[p].steps[1] = <<"delete_message", FALSE>>
        /\ ListOf(user_messages[th[p].chat]) = <<>>

\* C8: every message id that was appended to a list of user_messages is still
\* in the list of its chat, or delete_message has been called for it.
C8_DrainAtomic ==
    \A m \in logged :
        \/ m \in targeted
        \/ m \in SeqToSet(ListOf(user_messages[messages[m].chat]))

\* C9: a tap that comes after a tap on the same message resolved a ticket for
\* record R and ended makes no set_expense_type call for R.
C9_ResolvedIsTerminal ==
    \A p \in Threads :
        Tap(p) => (th[p].calls = 0 \/ th[p].got[1] \notin th[p].before)

\* C10: a tap handler whose set_expense_type call answered has, when it ends,
\* called set_expense_type once, with the pair stored under its key, answered
\* "Updated", called edit_message_reply_markup, and either its
\* edit_message_text call or its send_message("Categorised.") call answered.
C10_SuccessPath ==
    \A p \in Threads :
        (Tap(p) /\ Ended(p) /\ Answered(p, "set_expense_type"))
            => /\ th[p].calls = 1
               /\ <<th[p].got[1], th[p].got[2]>> \in SeqToSet(patches)
               /\ "Updated" \in SeqToSet(th[p].acks)
               /\ Made(p, "edit_message_reply_markup")
               /\ Answered(p, "edit_message_text") \/ Answered(p, "send_confirm")

\* C11: a tap handler whose set_expense_type call answered and that went on to
\* the cosmetic calls (edit_message_reply_markup onwards) never answers
\* "Update failed" and never sends the "Failed:" message, whatever the
\* cosmetic calls do.
C11_CosmeticFailuresContained ==
    \A p \in Threads :
        (Tap(p) /\ Answered(p, "set_expense_type")
                /\ Made(p, "edit_message_reply_markup"))
            => /\ "Update failed" \notin SeqToSet(th[p].acks)
               /\ ~Made(p, "send_error")

C13_NotFoundFrame ==
    [][\A p \in Threads :
          (th'[p] # th[p] /\ th'[p].kind = "tap" /\ ~IsDisabled(th'[p].key))
              => /\ th'[p].got = NoEntry
                     => /\ th'[p].calls = 0
                        /\ th'[p].steps = <<>>
                        /\ th'[p].pc \in {"tp_pop", "done", "raised"}
                        /\ UNCHANGED <<callback_map, minted, user_messages, lists,
                                       messages, patches, expense_type>>
                 /\ (th[p].pc = "tp_pop" /\ th[p].key \notin DOMAIN callback_map)
                     => /\ th'[p].got = NoEntry
                        /\ th'[p].pc \in {"done", "raised"}
                        /\ th'[p].acks = <<"Invalid/expired button.">>]_vars

\* C13 happens: a tap whose key was not in callback_map when its handler was
\* entered has answered "Invalid/expired button." and returned.
C13_ExpiredTapDone ==
    \E p \in Threads :
        /\ Tap(p) /\ ~IsDisabled(th[p].key) /\ th[p].ticket = 0
        /\ th[p].pc = "done" /\ th[p].acks = <<"Invalid/expired button.">>

\* C14: read_rows(limit) against a data source with M matching rows returns
\* (it does not fall out of its loop without a return statement) the records
\* of the first min(limit, M) rows, in the order of the data source.
C14_ReadRowsReturnsMin ==
    call.phase = "returned"
        => /\ ~call.none
           /\ call.records = [i \in 1..Min(call.limit, call.rows) |-> normalize_page(i)]

\* The category buttons of the messages 1..m that a user can see: the message
\* is not deleted and its keyboard has not been removed.
RECURSIVE VisibleButtons(_)
VisibleButtons(m) ==
    IF m = 0 THEN 0
    ELSE VisibleButtons(m - 1)
         + (IF messages[m].deleted THEN 0
            ELSE Cardinality({b \in 1..Len(messages[m].kb) :
                                 ~IsDisabled(KeyOf(messages[m].kb[b]))}))

\* C15: callback_map never has more entries than there are category buttons
\* on the messages that are visible in a chat.
C15_StoreBoundedByButtons ==
    Cardinality(DOMAIN callback_map) <= VisibleButtons(Len(messages))

\* A handler has sent message m and its next statement appends the id of m to
\* the list of the chat.
AboutToLog(m) ==
    \E p \in Threads :
        \/ th[p].pc = "rv_log_loading" /\ th[p].message = m
        \/ th[p].pc \in {"rv_log_record", "tp_log_error"} /\ th[p].sent = m

\* C16: the id of every message the bot has sent has been appended to a list
\* of user_messages, or is appended by the next statement of its handler.
C16_EverySendLogged ==
    \A m \in 1..Len(messages) : m \in logged \/ AboutToLog(m)

\* C17: when a /search handler that fetched N >= 1 records has returned, it
\* has sent N record messages, and the list of the chat is the id of its
\* placeholder followed by the ids of those N messages in the order sent.
C17_LogIsBatch ==
    \A p \in Threads :
        (Review(p) /\ th[p].pc = "done" /\ th[p].records # <<>>)
            => /\ Len(th[p].sends) = Len(th[p].records)
               /\ \A i \in 1..Len(th[p].sends) :
                     messages[th[p].sends[i]].text = "record"
               /\ ListOf(user_messages[th[p].chat]) = <<th[p].message>> \o th[p].sends

\* C18: every _store_cb call adds one entry under a key that was not in
\* callback_map and leaves the other entries as they are.  So callback_map
\* has one entry for each _store_cb call made, less the entries taps have
\* popped, and the entry each call wrote is still there unless a tap popped it.
C18_MintFresh ==
    /\ Cardinality(DOMAIN callback_map) = minted - Len(resolved)
    /\ \A n \in 1..minted :
          \/ n \in SeqToSet(resolved)
          \/ \E k \in DOMAIN callback_map : callback_map[k][3] = n

\* How many categories have an id, and the position in Categories of the i-th
\* of them.
NumConfigured ==
    Cardinality({j \in 1..Len(Categories) : expense_type_ids[Categories[j]] # ""})
ConfiguredAt(i) ==
    CHOOSE j \in 1..Len(Categories) :
        /\ expense_type_ids[Categories[j]] # ""
        /\ Cardinality({l \in 1..j : expense_type_ids[Categories[l]] # ""}) = i

\* C19: the step of a /search handler that renders the keyboard of a record R
\* makes one _store_cb call for each category that has an id, in the order of
\* the categories, and none for the others: the keyboard has one button per
\* such category, the key of each button is in callback_map with record R,
\* and the entry the i-th call wrote holds the id of the i-th such category.
\* With no category that has an id, no _store_cb call is made, callback_map
\* is left as it is, and the keyboard is the single button "SET:disabled".
C19_KeyboardMints ==
    [][\A p \in Threads :
          (th[p].pc = "rv_render" /\ th'[p] # th[p])
              => LET n  == NumConfigured
                     R  == th[p].records[th[p].rec].page_id
                     kb == th'[p].kb
                 IN  /\ minted' = minted + n
                     /\ n = 0 => /\ callback_map' = callback_map
                                 /\ kb = << <<"SET", "disabled">> >>
                     /\ n > 0 => /\ Len(kb) = n
                                 /\ \A i \in 1..n :
                                       /\ kb[i][1] = "SET"
                                       /\ KeyOf(kb[i]) \in DOMAIN callback_map'
                                       /\ callback_map'[KeyOf(kb[i])][1] = R
                     /\ \A k \in DOMAIN callback_map' :
                           LET i == callback_map'[k][3] - minted
                           IN  i > 0 => /\ i <= n
                                        /\ callback_map'[k][1] = R
                                        /\ callback_map'[k][2] =
                                             expense_type_ids[Categories[ConfiguredAt(i)]]
                                        /\ k = KeyOf(kb[i])]_vars

\* C19 happens: with an id for "Food" and none for "Shopping", a /search
\* handler has rendered and sent a record with one button, whose ticket is
\* the only one minted.
C19_OneOfTwoConfigured ==
    \E p \in Threads :
        /\ Review(p) /\ th[p].pc = "rv_log_record"
        /\ expense_type_ids["Food"] # "" /\ expense_type_ids["Shopping"] = ""
        /\ Len(th[p].kb) = 1 /\ minted = 1
        /\ KeyOf(th[p].kb[1]) \in DOMAIN callback_map

\* The pairs _store_cb can have been called with: a page of the data source
\* and the id of a category that has one.
MintablePairs ==
    {<<PageIds[i], expense_type_ids[c]>> :
        i \in 1..num_pages,
        c \in {d \in SeqToSet(Categories) : expense_type_ids[d] # ""}}

\* C20: every set_expense_type call was made with the pair of an entry that a
\* _store_cb call wrote and a tap popped (a page of the data source and the id
\* of a configured category), every tap that holds an entry holds one that
\* _store_cb wrote and calls set_expense_type with its pair and no other, and
\* there are no more set_expense_type calls than pops, nor more pops than
\* _store_cb calls.
C20_UpdaterCallsFromMints ==
    /\ Len(patches) <= Len(resolved)
    /\ Len(resolved) <= minted
    /\ \A i \in 1..Len(patches) : patches[i] \in MintablePairs
    /\ \A k \in DOMAIN callback_map :
          /\ <<callback_map[k][1], callback_map[k][2]>> \in MintablePairs
          /\ callback_map[k][3] \in 1..minted
    /\ \A p \in Threads :
          (Tap(p) /\ th[p].got # NoEntry)
              => /\ th[p].got[3] \in SeqToSet(resolved)
                 /\ th[p].got[3] \in 1..minted
                 /\ <<th[p].got[1], th[p].got[2]>> \in MintablePairs
                 /\ th[p].calls = 1 => <<th[p].got[1], th[p].got[2]>> \in SeqToSet(patches)
                 /\ th[p].calls <= 1

\* C20 happens: two taps have each resolved a ticket of the same record and
\* called set_expense_type with the pair of its ticket.
C20_TwoCalls ==
    /\ Len(patches) = 2
    /\ patches[1] # patches[2]
    /\ minted >= 2

C22_TicketChatLogged ==
    /\ \A k \in DOMAIN callback_map :
          /\ callback_map[k][3] \in 1..Len(rendered)
          /\ user_messages[rendered[callback_map[k][3]]] # 0
    /\ \A p \in Threads :
          Tap(p) => /\ th[p].pc = "tp_log_error" => user_messages[th[p].chat] # 0
                    /\ th[p].pc = "raised" => th[p].error # "KeyError"

\* C22 happens: a tap from the chat its ticket was made for has resolved the
\* ticket, its set_expense_type call raised, and it has returned with the id
\* of its "Failed:" message in the list of the chat, while callback_map still
\* holds another ticket made for that chat.
C22_ErrorAppended ==
    \E p \in Threads :
        /\ Tap(p) /\ th[p].pc = "done" /\ th[p].got # NoEntry
        /\ rendered[th[p].got[3]] = th[p].chat
        /\ <<"set_expense_type", FALSE>> \in SeqToSet(th[p].steps)
        /\ th[p].sent \in SeqToSet(ListOf(user_messages[th[p].chat]))
        /\ \E k \in DOMAIN callback_map : rendered[callback_map[k][3]] = th[p].chat

====
